---- MODULE Spec2Model ----
(***************************************************************************)
(* A model of sumi's two translation pipelines.                            *)
(*                                                                         *)
(*   E->I  src/src/sol2ink.rs : render (ABI JSON -> Module) and the pure   *)
(*         convert_type over ethabi::ParamType.                            *)
(*   I->E  src/src/ink2sol.rs : EvmTypeRegistry and its convert_type,      *)
(*         driven by the `type` and `mapped` template callbacks.           *)
(*                                                                         *)
(* JSON values that the code reads with as_str() are modelled as options:  *)
(* <<>> is a missing / non-string value, <<s>> is the string s.            *)
(***************************************************************************)
EXTENDS Integers, Sequences, FiniteSets, TLC

VARIABLES
    json,        \* E->I: the ABI array handed to render
    pc,          \* E->I: "start" before render ran, "done" after
    result,      \* E->I: what render returned
    ty,          \* convert_type (E->I): the ParamType argument
    converted,   \* convert_type (E->I): the returned text, <<>> before the call
    registry,    \* I->E: EvmTypeRegistry.mapping, a function from type ids
    stack,       \* I->E: the active calls of EvmTypeRegistry::convert_type
    call,        \* I->E: the `type` callback in progress, <<>> when none
    written,     \* I->E: what the last `type` callback pushed to the buffer
    answer,      \* I->E: what the last `mapped` callback returned
    status,      \* I->E: where render is: idle between callbacks, ...
    calls,       \* I->E: callbacks made so far by the module template
    visited      \* I->E: history, the ids convert_type was called with

abiVars == <<json, pc, result>>
convVars == <<ty, converted>>
inkVars == <<registry, stack, call, written, answer, status, calls, visited>>
vars == <<json, pc, result, ty, converted,
          registry, stack, call, written, answer, status, calls, visited>>

(***************************************************************************)
(* Bounds of the model.                                                    *)
(***************************************************************************)
MaxItems == 5      \* longest ABI array
MaxDepth == 2      \* deepest nesting of a ParamType
MaxCalls == 2      \* callbacks the module template makes in one render
MaxStack == 5      \* nested convert_type calls the thread's stack can hold

(***************************************************************************)
(* JSON leaves.                                                            *)
(***************************************************************************)
JNull == <<>>
JStr(s) == <<s>>
IsStr(v) == Len(v) = 1
AsStr(v) == v[1]

(***************************************************************************)
(* ethabi::ParamType as records tagged by k.                               *)
(***************************************************************************)
PBool == [k |-> "Bool"]
PAddress == [k |-> "Address"]
PBytes == [k |-> "Bytes"]
PString == [k |-> "String"]
PInt(size) == [k |-> "Int", size |-> size]
PUint(size) == [k |-> "Uint", size |-> size]
PFixedBytes(size) == [k |-> "FixedBytes", size |-> size]
PArray(inner) == [k |-> "Array", inner |-> inner]
PFixedArray(inner, size) == [k |-> "FixedArray", inner |-> inner, size |-> size]
PTuple(inner) == [k |-> "Tuple", inner |-> inner]

(***************************************************************************)
(* itertools::join over a sequence of strings.                             *)
(***************************************************************************)
RECURSIVE Join(_, _)
Join(strs, sep) ==
    IF Len(strs) = 0 THEN ""
    ELSE IF Len(strs) = 1 THEN strs[1]
    ELSE strs[1] \o sep \o Join(Tail(strs), sep)

(***************************************************************************)
(* sol2ink.rs convert_type: the Int and Uint arms.                         *)
(***************************************************************************)
IntName(size) ==
    CASE size = 8 -> "i8"
      [] size = 16 -> "i16"
      [] size = 32 -> "i32"
      [] size = 64 -> "i64"
      [] size = 128 -> "i128"
      [] OTHER -> "I256"

UintName(size) ==
    CASE size = 8 -> "u8"
      [] size = 16 -> "u16"
      [] size = 32 -> "u32"
      [] size = 64 -> "u64"
      [] size = 128 -> "u128"
      [] OTHER -> "U256"

TupleTextTight(parts) == "(" \o Join(parts, ",") \o ")"

TupleText(parts) == "(" \o Join(parts, ", ") \o ")"

RECURSIVE convert_type(_)
convert_type(t) ==
    CASE t.k = "Bool" -> "bool"
      [] t.k = "Address" -> "H160"
      [] t.k = "Array" -> "Vec<" \o convert_type(t.inner) \o ">"
      [] t.k = "FixedArray" ->
            "[" \o convert_type(t.inner) \o "; " \o ToString(t.size) \o "]"
      [] t.k = "Tuple" ->
            TupleText([i \in 1..Len(t.inner) |-> convert_type(t.inner[i])])
      [] t.k = "FixedBytes" -> "FixedBytes<" \o ToString(t.size) \o ">"
      [] t.k = "Bytes" -> "Vec<u8>"
      [] t.k = "String" -> "String"
      [] t.k = "Int" -> IntName(t.size)
      [] t.k = "Uint" -> UintName(t.size)

(***************************************************************************)
(* ethabi::param_type::Reader::read on the type strings of the ABI items   *)
(* below: Ok(ParamType) or Err.                                            *)
(***************************************************************************)
ReaderRead(raw_type) ==
    CASE raw_type = "address" -> [ok |-> TRUE, val |-> PAddress]
      [] raw_type = "uint256" -> [ok |-> TRUE, val |-> PUint(256)]
      [] raw_type = "uint" -> [ok |-> TRUE, val |-> PUint(256)]
      [] raw_type = "uint8" -> [ok |-> TRUE, val |-> PUint(8)]
      [] raw_type = "bytes" -> [ok |-> TRUE, val |-> PBytes]
      [] raw_type = "bool" -> [ok |-> TRUE, val |-> PBool]
      [] raw_type = "(uint256,address)[2]" ->
            [ok |-> TRUE, val |-> PFixedArray(PTuple(<<PUint(256), PAddress>>), 2)]
      [] OTHER -> [ok |-> FALSE, kind |-> "EthereumABI", msg |-> raw_type]

(***************************************************************************)
(* Keccak256 (sha3 crate) on the selector strings the model can build;     *)
(* each row is the real 32-byte digest.                                    *)
(***************************************************************************)
Keccak256(s) ==
    CASE s = "approve(address,uint256)" ->
       <<9, 94, 167, 179, 52, 174, 68, 0, 154, 168, 103, 191, 179, 134, 245, 195, 180, 180, 67, 172, 111, 14, 229, 115, 250, 145, 196, 96, 143, 186, 223, 186>>
      [] s = "approve(address,uint256,bytes)" ->
       <<92, 23, 249, 244, 39, 203, 106, 141, 139, 18, 78, 211, 153, 62, 59, 205, 250, 194, 25, 11, 185, 210, 71, 65, 224, 112, 253, 169, 163, 73, 224, 227>>
      [] s = "transfer(address,uint256)" ->
       <<169, 5, 156, 187, 42, 176, 158, 178, 25, 88, 63, 74, 89, 165, 208, 98, 58, 222, 52, 109, 150, 43, 205, 78, 70, 177, 29, 160, 71, 201, 4, 155>>
      [] s = "burn(uint,(uint256,address)[2])" ->
       <<246, 127, 4, 101, 215, 57, 69, 30, 5, 223, 126, 138, 80, 235, 35, 129, 167, 6, 126, 118, 196, 188, 200, 146, 143, 114, 194, 172, 76, 62, 246, 184>>
      [] s = "burn()" ->
       <<68, 223, 142, 112, 238, 206, 49, 96, 182, 198, 63, 73, 153, 149, 66, 67, 136, 66, 139, 145, 178, 153, 184, 171, 116, 231, 231, 159, 81, 95, 214, 224>>
      [] s = "approve(uint256)" ->
       <<183, 89, 249, 84, 169, 115, 204, 97, 24, 127, 178, 216, 173, 38, 113, 97, 13, 223, 64, 1, 129, 67, 68, 95, 135, 115, 129, 134, 109, 161, 75, 162>>
      [] s = "transfer()" ->
       <<138, 64, 104, 221, 196, 220, 175, 249, 28, 153, 90, 197, 179, 232, 8, 96, 59, 130, 20, 17, 87, 248, 164, 103, 61, 156, 3, 231, 35, 247, 41, 198>>
      [] s = "burn(uint8)" ->
       <<146, 210, 241, 24, 215, 75, 35, 185, 103, 29, 61, 40, 74, 153, 91, 205, 230, 64, 216, 147, 232, 40, 181, 6, 22, 79, 107, 116, 175, 145, 30, 35>>

(***************************************************************************)
(* hex::ToHex::encode_hex on a byte sequence: two lowercase digits a byte. *)
(***************************************************************************)
HexDigits ==
    <<"0", "1", "2", "3", "4", "5", "6", "7", "8", "9", "a", "b", "c", "d", "e", "f">>

RECURSIVE encode_hex(_)
encode_hex(bytes) ==
    IF Len(bytes) = 0 THEN ""
    ELSE HexDigits[(bytes[1] \div 16) + 1] \o HexDigits[(bytes[1] % 16) + 1]
            \o encode_hex(Tail(bytes))

(***************************************************************************)
(* The records render builds (sol2ink.rs, lines 13-54).                    *)
(***************************************************************************)
Input(name, evm_type, rust_type) ==
    [name |-> name, evm_type |-> evm_type, rust_type |-> rust_type]

Function(name, inputs, selector, selector_hash) ==
    [name |-> name, inputs |-> inputs, output |-> "bool",
     selector |-> selector, selector_hash |-> selector_hash]

Variant(inputs, selector, selector_hash) ==
    [inputs |-> inputs, output |-> "bool",
     selector |-> selector, selector_hash |-> selector_hash]

OverloadedFunction(name, variants) == [name |-> name, variants |-> variants]

Module(name, evm_id, functions, overloaded_functions) ==
    [name |-> name, evm_id |-> evm_id, functions |-> functions,
     overloaded_functions |-> overloaded_functions]

Ok(v) == [ok |-> TRUE, val |-> v]
Err(kind, msg) == [ok |-> FALSE, kind |-> kind, msg |-> msg]

(***************************************************************************)
(* The filter chain of the first loop and of the second loop of render.    *)
(***************************************************************************)
OutputsUnchecked(item) == TRUE

AllOutputsBool(item) ==
    \A o \in 1..Len(item.outputs) : item.outputs[o].type = JStr("bool")

FilterNoOutputs(item) ==
    /\ item.type = JStr("function")
    /\ item.stateMutability # JStr("view")

Filter1(item) ==
    /\ item.type = JStr("function")
    /\ item.stateMutability # JStr("view")
    /\ AllOutputsBool(item)

Filter2(item) ==
    /\ item.type = JStr("function")
    /\ item.stateMutability # JStr("view")
    /\ AllOutputsBool(item)

(***************************************************************************)
(* First loop: is_overloaded, a map from name to "seen more than once".    *)
(* i is the 1-based position; the code's index is i - 1.                   *)
(***************************************************************************)
NameError(index) ==
    Err("Metadata",
        "'name' for ABI item " \o ToString(index) \o " not exists or is not a string")

EntryModify(map, name) ==
    IF name \in DOMAIN map THEN [map EXCEPT ![name] = TRUE]
    ELSE map @@ (name :> FALSE)

RECURSIVE Pass1(_, _, _)
Pass1(js, i, is_overloaded) ==
    IF i > Len(js) THEN Ok(is_overloaded)
    ELSE IF ~Filter1(js[i]) THEN Pass1(js, i + 1, is_overloaded)
    ELSE IF ~IsStr(js[i].name) THEN NameError(i - 1)
    ELSE Pass1(js, i + 1, EntryModify(is_overloaded, AsStr(js[i].name)))

(***************************************************************************)
(* Second loop, the inputs of one function: the first failing input ends   *)
(* the collect with its error.                                             *)
(***************************************************************************)
RECURSIVE BuildInputsSkip(_, _, _, _)
BuildInputsSkip(function_name, ins, i, acc) ==
    IF i > Len(ins) THEN Ok(acc)
    ELSE IF ~IsStr(ins[i].name) \/ ~IsStr(ins[i].type)
            \/ ~ReaderRead(AsStr(ins[i].type)).ok
    THEN BuildInputsSkip(function_name, ins, i + 1, acc)
    ELSE BuildInputsSkip(function_name, ins, i + 1,
            Append(acc, Input(AsStr(ins[i].name), AsStr(ins[i].type),
                              convert_type(ReaderRead(AsStr(ins[i].type)).val))))

RECURSIVE BuildInputs(_, _, _, _)
BuildInputs(function_name, ins, i, acc) ==
    IF i > Len(ins) THEN Ok(acc)
    ELSE IF ~IsStr(ins[i].name) THEN
        Err("Metadata",
            "invalid 'name' input parameter " \o ToString(i - 1)
                \o " of function " \o function_name)
    ELSE IF ~IsStr(ins[i].type) THEN
        Err("Metadata",
            "invalid 'type' in input parameter item " \o AsStr(ins[i].name)
                \o " (" \o ToString(i - 1) \o ") of function " \o function_name)
    ELSE LET raw_type == AsStr(ins[i].type)
             param_type == ReaderRead(raw_type)
         IN  IF ~param_type.ok THEN param_type
             ELSE BuildInputs(function_name, ins, i + 1,
                    Append(acc, Input(AsStr(ins[i].name), raw_type,
                                      convert_type(param_type.val))))

EvmTypes(inputs) == [i \in 1..Len(inputs) |-> inputs[i].evm_type]
Selector(function_name, inputs) ==
    function_name \o "(" \o Join(EvmTypes(inputs), ",") \o ")"

SelectorHashShifted(selector) == encode_hex(SubSeq(Keccak256(selector), 2, 5))

SelectorHash(selector) == encode_hex(SubSeq(Keccak256(selector), 1, 4))

(***************************************************************************)
(* Second loop, the bucketing of one record.                               *)
(***************************************************************************)
FindOverloaded(overloaded_functions, function_name) ==
    {j \in 1..Len(overloaded_functions) :
        overloaded_functions[j].name = function_name}

PushVariantFront(overloaded_functions, function_name, variant) ==
    LET found == FindOverloaded(overloaded_functions, function_name)
    IN  IF found # {}
        THEN LET j == CHOOSE x \in found : \A y \in found : x <= y
             IN  [overloaded_functions EXCEPT
                    ![j].variants = <<variant>> \o @]
        ELSE <<OverloadedFunction(function_name, <<variant>>)>>
                \o overloaded_functions

PushVariant(overloaded_functions, function_name, variant) ==
    LET found == FindOverloaded(overloaded_functions, function_name)
    IN  IF found # {}
        THEN LET j == CHOOSE x \in found : \A y \in found : x <= y
             IN  [overloaded_functions EXCEPT
                    ![j].variants = Append(@, variant)]
        ELSE Append(overloaded_functions,
                    OverloadedFunction(function_name, <<variant>>))

RECURSIVE Pass2(_, _, _, _, _)
Pass2(js, i, is_overloaded, functions, overloaded_functions) ==
    IF i > Len(js) THEN
        Ok([functions |-> functions, overloaded_functions |-> overloaded_functions])
    ELSE IF ~Filter2(js[i]) THEN
        Pass2(js, i + 1, is_overloaded, functions, overloaded_functions)
    ELSE IF ~IsStr(js[i].name) THEN NameError(i - 1)
    ELSE
        LET function_name == AsStr(js[i].name)
            inputs == BuildInputs(function_name, js[i].inputs, 1, <<>>)
        IN  IF ~inputs.ok THEN inputs
            ELSE
                LET selector == Selector(function_name, inputs.val)
                    selector_hash == SelectorHash(selector)
                IN  IF is_overloaded[function_name]
                    THEN Pass2(js, i + 1, is_overloaded, functions,
                               PushVariant(overloaded_functions, function_name,
                                   Variant(inputs.val, selector, selector_hash)))
                    ELSE Pass2(js, i + 1, is_overloaded,
                               Append(functions,
                                   Function(function_name, inputs.val,
                                            selector, selector_hash)),
                               overloaded_functions)

(***************************************************************************)
(* render: Ok(Module) or the first error. The text of the module template  *)
(* is a function of the Module, which stands for the rendered string.      *)
(***************************************************************************)
render(js, module_name, evm_id) ==
    LET is_overloaded == Pass1(js, 1, <<>>)
    IN  IF ~is_overloaded.ok THEN is_overloaded
        ELSE LET built == Pass2(js, 1, is_overloaded.val, <<>>, <<>>)
             IN  IF ~built.ok THEN built
                 ELSE Ok(Module(module_name, evm_id, built.val.functions,
                                built.val.overloaded_functions))

(***************************************************************************)
(* ABI items the inputs are drawn from.                                    *)
(***************************************************************************)
In(name, type) == [name |-> JStr(name), type |-> JStr(type)]
Out(type) == [name |-> JStr(""), type |-> JStr(type)]
Item(type, name, mutability, ins, outs) ==
    [type |-> type, name |-> name, stateMutability |-> mutability,
     inputs |-> ins, outputs |-> outs]

ApproveTwo ==
    Item(JStr("function"), JStr("approve"), JStr("nonpayable"),
         <<In("spender", "address"), In("value", "uint256")>>, <<Out("bool")>>)
ApproveThree ==
    Item(JStr("function"), JStr("approve"), JStr("nonpayable"),
         <<In("spender", "address"), In("value", "uint256"), In("data", "bytes")>>,
         <<Out("bool"), Out("bool")>>)
TransferTwo ==
    Item(JStr("function"), JStr("transfer"), JStr("nonpayable"),
         <<In("to", "address"), In("value", "uint256")>>, <<Out("bool")>>)
BurnUint ==
    Item(JStr("function"), JStr("burn"), JNull,
         <<In("amount", "uint"), In("batch", "(uint256,address)[2]")>>, <<>>)
ApproveView ==
    Item(JStr("function"), JStr("approve"), JStr("view"),
         <<In("value", "uint256")>>, <<Out("bool")>>)
TransferUintOut ==
    Item(JStr("function"), JStr("transfer"), JStr("nonpayable"),
         <<>>, <<Out("bool"), Out("uint256")>>)
BurnEvent ==
    Item(JStr("event"), JStr("burn"), JNull, <<In("amount", "uint8")>>, <<>>)
NoName ==
    Item(JStr("function"), JNull, JStr("nonpayable"), <<>>, <<>>)
BadType ==
    Item(JStr("function"), JStr("burn"), JStr("nonpayable"),
         <<In("amount", "uint8"), In("x", "foo")>>, <<Out("bool")>>)

AbiItems ==
    {ApproveTwo, ApproveThree, TransferTwo, BurnUint,
     ApproveView, TransferUintOut, BurnEvent, NoName, BadType}

AbiInputs == UNION {[1..n -> AbiItems] : n \in 0..MaxItems}

(***************************************************************************)
(* ParamTypes up to a nesting depth, the arguments of convert_type.        *)
(***************************************************************************)
Widths == {8, 16, 32, 64, 128, 256, 24}

BaseTypes ==
    {PBool, PAddress, PBytes, PString, PFixedBytes(1), PFixedBytes(32)}
        \cup {PInt(w) : w \in Widths} \cup {PUint(w) : w \in Widths}

RECURSIVE ParamTypes(_)
ParamTypes(d) ==
    IF d = 0 THEN BaseTypes
    ELSE LET sub == ParamTypes(d - 1)
         IN  sub \cup {PArray(t) : t \in sub}
                 \cup {PFixedArray(t, n) : t \in sub, n \in {0, 3}}
                 \cup {PTuple(<<>>)}
                 \cup {PTuple(<<t>>) : t \in sub}
                 \cup {PTuple(<<a, t>>) : a \in {PUint(256), PAddress}, t \in sub}

(***************************************************************************)
(* E->I: one run of render on an ABI array.                                *)
(***************************************************************************)
NoType == [k |-> "None"]

InkIdle ==
    /\ registry = <<>>
    /\ stack = <<>>
    /\ call = <<>>
    /\ written = <<>>
    /\ answer = <<>>
    /\ status = "off"
    /\ calls = 0
    /\ visited = {}

Init ==
    /\ json \in AbiInputs
    /\ pc = "start"
    /\ result = <<>>
    /\ ty = NoType
    /\ converted = <<>>
    /\ InkIdle

Render ==
    /\ pc = "start"
    /\ pc' = "done"
    /\ result' = render(json, "Erc20", "0x0F")
    /\ UNCHANGED <<json, ty, converted>>
    /\ UNCHANGED inkVars

Next == Render

Spec == Init /\ [][Next]_vars

(***************************************************************************)
(* E->I: one call of convert_type on a ParamType.                          *)
(***************************************************************************)
InitConvert ==
    /\ ty \in ParamTypes(MaxDepth)
    /\ converted = <<>>
    /\ json = <<>>
    /\ pc = "idle"
    /\ result = <<>>
    /\ InkIdle

Convert ==
    /\ pc = "idle"
    /\ converted = <<>>
    /\ converted' = <<convert_type(ty)>>
    /\ UNCHANGED <<json, pc, result, ty>>
    /\ UNCHANGED inkVars

NextConvert == Convert

SpecConvert == InitConvert /\ [][NextConvert]_vars

(***************************************************************************)
(* E->I: one run of render on an ABI array with items that lack a field.   *)
(***************************************************************************)
MaxBadItems == 4   \* longest ABI array of this specification

NoNameView ==
    Item(JStr("function"), JNull, JStr("view"), <<>>, <<>>)
NoInputName ==
    Item(JStr("function"), JStr("burn"), JStr("nonpayable"),
         <<In("amount", "uint8"), [name |-> JNull, type |-> JStr("uint8")]>>,
         <<Out("bool")>>)
NoInputType ==
    Item(JStr("function"), JStr("burn"), JStr("nonpayable"),
         <<In("amount", "uint8"), [name |-> JStr("x"), type |-> JNull]>>,
         <<Out("bool")>>)

BadItems ==
    {TransferTwo, BurnEvent, NoName, NoNameView, BadType, NoInputName,
     NoInputType}

BadInputs == UNION {[1..n -> BadItems] : n \in 0..MaxBadItems}

InitBad ==
    /\ json \in BadInputs
    /\ pc = "start"
    /\ result = <<>>
    /\ ty = NoType
    /\ converted = <<>>
    /\ InkIdle

NextBad == Render

SpecBad == InitBad /\ [][NextBad]_vars

(***************************************************************************)
(* Vocabulary of the E->I claims, read off the ABI input alone.            *)
(***************************************************************************)
ClaimSurvives(item) ==
    /\ item.type = <<"function">>
    /\ item.stateMutability # <<"view">>
    /\ \A o \in 1..Len(item.outputs) : item.outputs[o].type = <<"bool">>

Indices(js) == [i \in 1..Len(js) |-> i]
Survivors(js) == SelectSeq(Indices(js), LAMBDA i : ClaimSurvives(js[i]))
NameOf(item) == item.name[1]
RawTypes(item) == [i \in 1..Len(item.inputs) |-> item.inputs[i].type[1]]
Sig(item) == [name |-> NameOf(item), types |-> RawTypes(item)]
SurvivorsNamed(js, n) ==
    SelectSeq(Survivors(js), LAMBDA i : NameOf(js[i]) = n)
SurvivingNames(js) ==
    {NameOf(js[Survivors(js)[x]]) : x \in 1..Len(Survivors(js))}
Singles(js) ==
    SelectSeq(Survivors(js), LAMBDA i : Len(SurvivorsNamed(js, NameOf(js[i]))) = 1)
FirstOf(js, n) == SurvivorsNamed(js, n)[1]

Rendered == pc = "done" /\ result.ok
TheModule == result.val
RecordSig(name, r) ==
    [name |-> name, types |-> [i \in 1..Len(r.inputs) |-> r.inputs[i].evm_type]]
Count(seq, Test(_)) == Cardinality({x \in 1..Len(seq) : Test(seq[x])})

\* C1: every surviving name is either in functions exactly once (when it
\* survives once) or in overloaded_functions as exactly one entry with at
\* least 2 variants (when two or more surviving items share it, whatever
\* their input types), never in both.
OverloadPartition ==
    Rendered =>
        \A n \in SurvivingNames(json) :
            LET inF == Count(TheModule.functions, LAMBDA f : f.name = n)
                inO == Count(TheModule.overloaded_functions, LAMBDA f : f.name = n)
            IN  IF Len(SurvivorsNamed(json, n)) >= 2
                THEN /\ inF = 0
                     /\ inO = 1
                     /\ \A j \in 1..Len(TheModule.overloaded_functions) :
                            TheModule.overloaded_functions[j].name = n =>
                                Len(TheModule.overloaded_functions[j].variants) >= 2
                ELSE inF = 1 /\ inO = 0

\* A run where one name survives once and another survives twice with the
\* same input types.
OverloadPartitionWitness ==
    /\ Rendered
    /\ json = <<ApproveTwo, TransferTwo, ApproveTwo>>
    /\ Len(TheModule.functions) = 1
    /\ Len(TheModule.overloaded_functions) = 1

\* C2: all variants of one OverloadedFunction have pairwise different
\* selectors and selector hashes.
VariantSelectorsDistinct ==
    Rendered =>
        \A j \in 1..Len(TheModule.overloaded_functions) :
            LET vs == TheModule.overloaded_functions[j].variants
            IN  \A a, b \in 1..Len(vs) :
                    a # b => /\ vs[a].selector # vs[b].selector
                             /\ vs[a].selector_hash # vs[b].selector_hash

\* The selector of an ABI item and the published 4-byte hashes of the
\* selectors that can survive.
ClaimSelector(item) ==
    NameOf(item) \o "(" \o Join(RawTypes(item), ",") \o ")"

KnownHash(selector) ==
    CASE selector = "approve(address,uint256)" -> "095ea7b3"
      [] selector = "approve(address,uint256,bytes)" -> "5c17f9f4"
      [] selector = "transfer(address,uint256)" -> "a9059cbb"
      [] selector = "burn(uint,(uint256,address)[2])" -> "f67f0465"
      [] OTHER -> "unknown"

SelectorOk(r, item) ==
    /\ r.selector = ClaimSelector(item)
    /\ r.selector_hash = KnownHash(ClaimSelector(item))
    /\ Len(r.selector_hash) = 8

\* C3: the selector of every emitted record is name(t1,...,tn) over the
\* input type strings as written in the ABI, and selector_hash is the first
\* 4 bytes of its Keccak-256 digest as 8 lowercase hex digits.
SelectorCorrect ==
    Rendered =>
        /\ Len(TheModule.functions) = Len(Singles(json))
        /\ \A j \in 1..Len(TheModule.functions) :
                SelectorOk(TheModule.functions[j], json[Singles(json)[j]])
        /\ \A j \in 1..Len(TheModule.overloaded_functions) :
                LET o == TheModule.overloaded_functions[j]
                    items == SurvivorsNamed(json, o.name)
                IN  /\ Len(o.variants) = Len(items)
                    /\ \A v \in 1..Len(o.variants) :
                            SelectorOk(o.variants[v], json[items[v]])

\* A simple function written with the alias uint and a tuple array, and two
\* variants, all with their selectors emitted.
SelectorCorrectWitness ==
    /\ Rendered
    /\ json = <<BurnUint, ApproveTwo, TransferTwo, ApproveThree>>
    /\ TheModule.functions[1].selector = "burn(uint,(uint256,address)[2])"
    /\ TheModule.functions[1].inputs[1].rust_type = "U256"
    /\ TheModule.functions[2].selector_hash = "a9059cbb"
    /\ TheModule.overloaded_functions[1].variants[2].selector
            = "approve(address,uint256,bytes)"

\* The records of a Module by signature.
AllRecords(m) ==
    [j \in 1..Len(m.functions) |->
        [sig |-> RecordSig(m.functions[j].name, m.functions[j]),
         output |-> m.functions[j].output]]
FlatVariants(m, j) ==
    [v \in 1..Len(m.overloaded_functions[j].variants) |->
        [sig |-> RecordSig(m.overloaded_functions[j].name,
                           m.overloaded_functions[j].variants[v]),
         output |-> m.overloaded_functions[j].variants[v].output]]
EmittedCount(m, sig) ==
    LET fs == AllRecords(m)
    IN  Cardinality({j \in 1..Len(fs) : fs[j].sig = sig})
        + Cardinality({jv \in (1..Len(m.overloaded_functions)) \X (1..MaxItems + 1) :
                /\ jv[2] <= Len(m.overloaded_functions[jv[1]].variants)
                /\ FlatVariants(m, jv[1])[jv[2]].sig = sig})
EmittedTotal(m) ==
    Len(m.functions)
    + Cardinality({jv \in (1..Len(m.overloaded_functions)) \X (1..MaxItems + 1) :
            jv[2] <= Len(m.overloaded_functions[jv[1]].variants)})

\* C4: an item contributes a record iff it is a function, not view, with
\* every output literally bool; overload status is counted over exactly the
\* emitted items; every record has output bool.
FilterExact ==
    Rendered =>
        /\ EmittedTotal(TheModule) = Len(Survivors(json))
        /\ \A i \in 1..Len(json) :
                ClaimSurvives(json[i]) =>
                    EmittedCount(TheModule, Sig(json[i]))
                        = Count(Survivors(json), LAMBDA x : Sig(json[x]) = Sig(json[i]))
        /\ \A j \in 1..Len(TheModule.functions) :
                /\ TheModule.functions[j].output = "bool"
                /\ Len(SurvivorsNamed(json, TheModule.functions[j].name)) = 1
        /\ \A j \in 1..Len(TheModule.overloaded_functions) :
                LET o == TheModule.overloaded_functions[j]
                IN  /\ Len(o.variants) = Len(SurvivorsNamed(json, o.name))
                    /\ Len(o.variants) >= 2
                    /\ \A v \in 1..Len(o.variants) : o.variants[v].output = "bool"

\* Items of every filtered sort next to surviving ones, one of them with no
\* outputs and one with no stateMutability.
FilterExactWitness ==
    /\ Rendered
    /\ json = <<ApproveView, ApproveThree, TransferUintOut, BurnEvent, BurnUint>>
    /\ Len(TheModule.functions) = 2
    /\ Len(TheModule.overloaded_functions) = 0

\* C5: functions keeps ABI order; overloaded_functions is ordered by first
\* surviving occurrence of each name; variants keep ABI order.
OrderPreserved ==
    Rendered =>
        /\ Len(TheModule.functions) = Len(Singles(json))
        /\ \A j \in 1..Len(TheModule.functions) :
                RecordSig(TheModule.functions[j].name, TheModule.functions[j])
                    = Sig(json[Singles(json)[j]])
        /\ \A j, k \in 1..Len(TheModule.overloaded_functions) :
                j < k => FirstOf(json, TheModule.overloaded_functions[j].name)
                            < FirstOf(json, TheModule.overloaded_functions[k].name)
        /\ \A j \in 1..Len(TheModule.overloaded_functions) :
                LET o == TheModule.overloaded_functions[j]
                    items == SurvivorsNamed(json, o.name)
                IN  /\ Len(o.variants) = Len(items)
                    /\ \A v \in 1..Len(items) :
                            RecordSig(o.name, o.variants[v]) = Sig(json[items[v]])

\* Two overloaded names and a simple function interleaved.
OrderPreservedWitness ==
    /\ Rendered
    /\ json = <<ApproveThree, TransferTwo, BurnUint, TransferTwo, ApproveTwo>>
    /\ Len(TheModule.functions) = 1
    /\ TheModule.overloaded_functions[1].name = "approve"
    /\ TheModule.overloaded_functions[2].name = "transfer"
    /\ Len(TheModule.overloaded_functions[1].variants[1].inputs) = 3

\* The translation table of the E->I type mapper.
RECURSIVE ClaimConv(_)
ClaimConv(t) ==
    IF t = [k |-> "Bool"] THEN "bool"
    ELSE IF t = [k |-> "Address"] THEN "H160"
    ELSE IF t = [k |-> "Bytes"] THEN "Vec<u8>"
    ELSE IF t = [k |-> "String"] THEN "String"
    ELSE IF t.k = "FixedBytes" THEN "FixedBytes<" \o ToString(t.size) \o ">"
    ELSE IF t.k \in {"Uint", "Int"} THEN
        (IF t.size \in {8, 16, 32, 64, 128}
         THEN (IF t.k = "Uint" THEN "u" ELSE "i") \o ToString(t.size)
         ELSE (IF t.k = "Uint" THEN "U256" ELSE "I256"))
    ELSE IF t.k = "Array" THEN "Vec<" \o ClaimConv(t.inner) \o ">"
    ELSE IF t.k = "FixedArray" THEN
        "[" \o ClaimConv(t.inner) \o "; " \o ToString(t.size) \o "]"
    ELSE "(" \o Join([i \in 1..Len(t.inner) |-> ClaimConv(t.inner[i])], ", ") \o ")"

\* C6: convert_type is total and follows the fixed table (bool, H160, uN/iN
\* for N in {8,16,32,64,128}, U256/I256 otherwise, FixedBytes<N>, Vec<u8>,
\* String, Vec<T>, [T; N], (T1, ..., Tn)), recursively; tuple(uint256,address)
\* gives "(U256, H160)".
ConvertTypeTable ==
    converted # <<>> =>
        /\ converted[1] = ClaimConv(ty)
        /\ ty = [k |-> "Tuple",
                 inner |-> <<[k |-> "Uint", size |-> 256], [k |-> "Address"]>>]
                => converted[1] = "(U256, H160)"

\* The tuple of the seed scenario nested in a fixed array.
ConvertTypeTableWitness ==
    /\ ty = PFixedArray(PTuple(<<PUint(256), PAddress>>), 3)
    /\ converted = <<"[(U256, H160); 3]">>

(***************************************************************************)
(* I->E.  Option values: <<>> is None, <<v>> is Some(v).                   *)
(***************************************************************************)
None == <<>>
Some(v) == <<v>>

EvmType(definition, reference, modifier, encoder) ==
    [definition |-> definition, reference |-> reference,
     modifier |-> modifier, encoder |-> encoder]

EvmTypeDefault == EvmType(None, "", None, None)

(***************************************************************************)
(* scale_info types of the portable registry, tagged by def.               *)
(***************************************************************************)
Primitive(prim) == [def |-> "Primitive", path |-> <<>>, prim |-> prim]
Array(elem, len) == [def |-> "Array", path |-> <<>>, elem |-> elem, len |-> len]
Field(name, id) == [name |-> name, ty |-> id]
Composite(path, fields) == [def |-> "Composite", path |-> path, fields |-> fields]
Tuple(ids) == [def |-> "Tuple", path |-> <<>>, fields |-> ids]
Var(name, index) == [name |-> name, index |-> index]
VariantDef(path, variants) == [def |-> "Variant", path |-> path, variants |-> variants]
SequenceDef(elem) == [def |-> "Sequence", path |-> <<>>, elem |-> elem]

(***************************************************************************)
(* The Ink project the render runs on: PortableRegistry::resolve.          *)
(***************************************************************************)
TypeIds == 0..27
UnknownId == 99

Resolve(id) ==
    CASE id = 0 -> Some(Array(1, 20))
      [] id = 1 -> Some(Primitive("U8"))
      [] id = 2 -> Some(Primitive("Bool"))
      [] id = 3 -> Some(Composite(<<"AccountId">>, <<Field(None, 0)>>))
      [] id = 4 -> Some(Primitive("Char"))
      [] id = 5 -> Some(Primitive("U128"))
      [] id = 6 -> Some(Primitive("Str"))
      [] id = 7 -> Some(Composite(<<"erc20", "Transfer">>,
                    <<Field(Some("from"), 3), Field(Some("to"), 3),
                      Field(Some("value"), 5)>>))
      [] id = 8 -> Some(Array(1, 32))
      [] id = 9 -> Some(Array(1, 33))
      [] id = 10 -> Some(Array(5, 3))
      [] id = 11 -> Some(Array(4, 2))
      [] id = 12 -> Some(Tuple(<<5, 2>>))
      [] id = 13 -> Some(VariantDef(<<"Status">>, <<Var("On", 0), Var("Off", 1)>>))
      [] id = 14 -> Some(VariantDef(<<"Gap">>, <<Var("A", 0), Var("B", 2)>>))
      [] id = 15 -> Some(Composite(<<"Holder">>,
                    <<Field(Some("c"), 4), Field(Some("g"), 14),
                      Field(Some("v"), 5)>>))
      [] id = 16 -> Some(Array(14, 2))
      [] id = 17 -> Some(SequenceDef(1))
      [] id = 18 -> Some(Composite(<<"uint8">>, <<Field(None, 1)>>))
      [] id = 19 -> Some(Array(18, 4))
      [] id = 20 -> Some(Composite(<<"Node">>, <<Field(Some("next"), 20)>>))
      [] id = 21 -> Some(Tuple(<<15, 11>>))
      [] id = 22 -> Some(Array(1, 0))
      [] id = 23 -> Some(Array(12, 2))
      [] id = 24 -> Some(Composite(<<>>, <<Field(Some("flag"), 2)>>))
      [] id = 25 -> Some(VariantDef(<<"Swap">>, <<Var("A", 1), Var("B", 0)>>))
      [] id = 26 -> Some(Array(3, 2))
      [] id = 27 -> Some(Composite(<<"Loose">>, <<Field(Some("x"), UnknownId)>>))
      [] OTHER -> None

(***************************************************************************)
(* EvmTypeRegistry: lookup, insert.                                        *)
(***************************************************************************)
\* EvmTypeRegistry::new: Self::default(), whatever the portable registry holds.
new(portable) == <<>>

lookup(reg, id) == IF id \in DOMAIN reg THEN Some(reg[id]) ELSE None

insertAlone(reg, id, t) == (id :> t)

insert(reg, id, t) == (id :> t) @@ reg

(***************************************************************************)
(* convert_type, the arms of its match.                                    *)
(***************************************************************************)
PrimitiveReference(prim) ==
    CASE prim = "Bool" -> Some("bool")
      [] prim = "Char" -> None
      [] prim = "Str" -> Some("string")
      [] prim = "U8" -> Some("uint8")
      [] prim = "U16" -> Some("uint16")
      [] prim = "U32" -> Some("uint32")
      [] prim = "U64" -> Some("uint64")
      [] prim = "U128" -> Some("uint128")
      [] prim = "U256" -> Some("uint256")
      [] prim = "I8" -> Some("int8")
      [] prim = "I16" -> Some("int16")
      [] prim = "I32" -> Some("int32")
      [] prim = "I64" -> Some("int64")
      [] prim = "I128" -> Some("int128")
      [] prim = "I256" -> Some("int256")

ArrayType(reference, size) ==
    IF reference = "uint8" /\ size <= 32
    THEN EvmType(None, "bytes" \o ToString(size), None, None)
    ELSE EvmType(None, reference \o "[" \o ToString(size) \o "]", None, None)

\* tinytemplate's render of a sub-template against a value; the record
\* stands for the rendered text.
RenderTemplate(name, value) == [template |-> name, value |-> value]

FieldNameOneBased(field, index) ==
    IF field.name # None THEN field.name[1] ELSE "f" \o ToString(index + 1)

FieldName(field, index) ==
    IF field.name # None THEN field.name[1] ELSE "f" \o ToString(index)

\* fields_to_struct, once the reference of every field is known.
Struct(path, fields, refs) ==
    [path |-> path,
     fields |-> [i \in 1..Len(fields) |->
                    [name |-> FieldName(fields[i], i - 1), type |-> refs[i]]]]

TupleFields(t) == [i \in 1..Len(t.fields) |-> Field(None, t.fields[i])]

default_indices(variants) ==
    \A i \in 1..Len(variants) : i - 1 = variants[i].index

\* The ids convert_type looks up through lookup_reference_or_insert, in order.
Children(t) ==
    CASE t.def = "Array" -> <<t.elem>>
      [] t.def = "Composite" -> [i \in 1..Len(t.fields) |-> t.fields[i].ty]
      [] t.def = "Tuple" -> t.fields
      [] OTHER -> <<>>

\* The value convert_type returns for t once its lookups are done: refs are
\* the references they gave, failed says the `?` of the array arm hit None.
Finish(t, refs, failed) ==
    CASE t.def = "Primitive" ->
            IF PrimitiveReference(t.prim) = None THEN None
            ELSE Some(EvmType(None, PrimitiveReference(t.prim)[1], None, None))
      [] t.def = "Array" ->
            IF failed THEN None ELSE Some(ArrayType(refs[1], t.len))
      [] t.def = "Composite" ->
            LET st == Struct(t.path, t.fields, refs)
            IN  Some(EvmType(Some(RenderTemplate("struct", st)),
                             Join(t.path, "_"),
                             Some("memory"),
                             Some(RenderTemplate("encoder", st))))
      [] t.def = "Tuple" ->
            LET st == Struct(t.path, TupleFields(t), refs)
            IN  Some(EvmType(Some(RenderTemplate("struct", st)),
                             Join(t.path, "_") \o " memory",
                             None, None))
      [] t.def = "Variant" ->
            IF ~default_indices(t.variants) THEN None
            ELSE Some(EvmType(Some(RenderTemplate("enum", t)),
                              Join(t.path, "_"), None, None))
      [] OTHER -> None

(***************************************************************************)
(* One active call of convert_type: the id, the position of the next       *)
(* lookup, the references collected so far.                                *)
(***************************************************************************)
Frame(id) == [id |-> id, i |-> 1, refs |-> <<>>, failed |-> FALSE]
Top == stack[Len(stack)]
TopType == Resolve(Top.id)[1]
TopReady == Top.failed \/ Top.i > Len(Children(TopType))
NextChild == Children(TopType)[Top.i]
ReplaceTop(f) == [stack EXCEPT ![Len(stack)] = f]
Deliver(f, reference) ==
    [f EXCEPT !.i = @ + 1, !.refs = Append(@, reference)]

\* lookup_reference_or_insert, after the nested convert_type returned v.
InsertAlways(reg, id, v) ==
    IF v = None THEN insert(reg, id, EvmTypeDefault) ELSE insert(reg, id, v[1])

InsertIfSome(reg, id, v) ==
    IF v = None THEN reg ELSE insert(reg, id, v[1])

\* What the caller of lookup_reference_or_insert does with None: the array
\* arm returns None itself, fields_to_struct takes the default, "".
Receive(parent, parentType, v) ==
    IF v # None THEN Deliver(parent, v[1].reference)
    ELSE IF parentType.def = "Array" THEN [parent EXCEPT !.failed = TRUE]
    ELSE Deliver(parent, "")

(***************************************************************************)
(* The `type` formatter's write_buffer.                                    *)
(***************************************************************************)
Slots == {"reference", "definition", "modifier", "encoder"}
Args == {Some(a) : a \in Slots} \cup {None}

UnwrapOrEmpty(opt) == IF opt = None THEN "" ELSE opt[1]

write_buffer(t, arg) ==
    CASE arg = Some("reference") -> Some(t.reference)
      [] arg = Some("definition") -> Some(UnwrapOrEmpty(t.definition))
      [] arg = Some("modifier") -> Some(UnwrapOrEmpty(t.modifier))
      [] arg = Some("encoder") -> Some(UnwrapOrEmpty(t.encoder))
      [] OTHER -> None

(***************************************************************************)
(* The RefCell around the registry. The RefMut the `type` formatter takes   *)
(* with borrow_mut() is dropped when the callback returns, so it is held    *)
(* for as long as the callback's convert_type runs; the Ref of `mapped`     *)
(* ends within its statement.                                              *)
(***************************************************************************)
borrow_mut == status = "converting"

\* The templates of Context that convert_type renders for a type when it
\* builds the value it returns.
Templates(t) ==
    CASE t.def = "Composite" -> {"struct", "encoder"}
      [] t.def = "Tuple" -> {"struct"}
      [] t.def = "Variant" ->
            IF default_indices(t.variants) THEN {"enum"} ELSE {}
      [] OTHER -> {}

(***************************************************************************)
(* I->E: render, from the first callback of the module template on.        *)
(***************************************************************************)
InitInk ==
    /\ registry = new(TypeIds)
    /\ stack = <<>>
    /\ call = <<>>
    /\ written = <<>>
    /\ answer = <<>>
    /\ status = "idle"
    /\ calls = 0
    /\ visited = {}
    /\ json = <<>>
    /\ pc = "idle"
    /\ result = <<>>
    /\ ty = NoType
    /\ converted = <<>>

\* The `mapped` predicate.
Mapped(id) ==
    /\ status = "idle"
    /\ calls < MaxCalls
    /\ calls' = calls + 1
    /\ answer' = Some(lookup(registry, id) # None)
    /\ UNCHANGED <<registry, stack, call, written, status, visited>>
    /\ UNCHANGED <<abiVars, convVars>>

\* The `type` formatter on a value that gives no u32: one that is no
\* Value::Number, or a number as_u64 / try_into turn down.
JsonString == [kind |-> "String"]
JsonNegative == [kind |-> "Number", u32 |-> FALSE]
NoIds == {JsonString, JsonNegative}

TypeNoId(value) ==
    /\ status = "idle"
    /\ calls < MaxCalls
    /\ calls' = calls + 1
    /\ status' = IF value.kind = "Number"
                 THEN "Err(TemplateEngine): invalid id"
                 ELSE "Err(TemplateEngine): invalid type id"
    /\ UNCHANGED <<registry, stack, call, written, answer, visited>>
    /\ UNCHANGED <<abiVars, convVars>>

\* The `mapped` predicate on such a value: as_u64 or try_into give None.
MappedNoId(value) ==
    /\ status = "idle"
    /\ calls < MaxCalls
    /\ calls' = calls + 1
    /\ status' = "Err(TemplateEngine): invalid id"
    /\ UNCHANGED <<registry, stack, call, written, answer, visited>>
    /\ UNCHANGED <<abiVars, convVars>>

\* The `type` formatter on an id the registry holds.
TypeHit(id, arg) ==
    /\ status = "idle"
    /\ calls < MaxCalls
    /\ lookup(registry, id) # None
    /\ calls' = calls + 1
    /\ IF write_buffer(registry[id], arg) = None
       THEN status' = "panic: type formatter must come with an argument"
            /\ UNCHANGED written
       ELSE written' = write_buffer(registry[id], arg) /\ UNCHANGED status
    /\ UNCHANGED <<registry, stack, call, answer, visited>>
    /\ UNCHANGED <<abiVars, convVars>>

\* The `type` formatter on an id the registry lacks: resolve, then enter
\* convert_type.
TypeMiss(id, arg) ==
    /\ status = "idle"
    /\ calls < MaxCalls
    /\ lookup(registry, id) = None
    /\ calls' = calls + 1
    /\ IF Resolve(id) = None
       THEN /\ status' = "Err(TemplateEngine): invalid id"
            /\ UNCHANGED <<stack, call, visited>>
       ELSE /\ status' = "converting"
            /\ call' = Some([id |-> id, arg |-> arg])
            /\ stack' = <<Frame(id)>>
            /\ visited' = visited \cup {id}
    /\ UNCHANGED <<registry, written, answer>>
    /\ UNCHANGED <<abiVars, convVars>>

\* lookup_reference_or_insert finds the id in the registry.
LookupHit ==
    /\ status = "converting"
    /\ ~TopReady
    /\ lookup(registry, NextChild) # None
    /\ stack' = ReplaceTop(Deliver(Top, registry[NextChild].reference))
    /\ UNCHANGED <<registry, call, written, answer, status, calls, visited>>
    /\ UNCHANGED <<abiVars, convVars>>

\* lookup_reference_or_insert misses and calls convert_type on the id.
LookupMiss ==
    /\ status = "converting"
    /\ ~TopReady
    /\ lookup(registry, NextChild) = None
    /\ IF Resolve(NextChild) = None
       THEN /\ status' = "panic: should exist"
            /\ UNCHANGED <<stack, visited>>
       ELSE IF Len(stack) >= MaxStack
       THEN /\ status' = "abort: stack overflow"
            /\ UNCHANGED <<stack, visited>>
       ELSE /\ stack' = Append(stack, Frame(NextChild))
            /\ visited' = visited \cup {NextChild}
            /\ UNCHANGED status
    /\ UNCHANGED <<registry, call, written, answer, calls>>
    /\ UNCHANGED <<abiVars, convVars>>

\* A nested convert_type returns into lookup_reference_or_insert.
ReturnNested ==
    /\ status = "converting"
    /\ Len(stack) > 1
    /\ TopReady
    /\ LET v == Finish(TopType, Top.refs, Top.failed)
           parent == stack[Len(stack) - 1]
           rest == SubSeq(stack, 1, Len(stack) - 2)
       IN  /\ registry' = InsertIfSome(registry, Top.id, v)
           /\ stack' = Append(rest, Receive(parent, Resolve(parent.id)[1], v))
    /\ UNCHANGED <<call, written, answer, status, calls, visited>>
    /\ UNCHANGED <<abiVars, convVars>>

\* The outermost convert_type returns into the `type` formatter: unwrap,
\* write_buffer, insert.
ReturnOuter ==
    /\ status = "converting"
    /\ Len(stack) = 1
    /\ TopReady
    /\ LET v == Finish(TopType, Top.refs, Top.failed)
       IN  IF v = None
           THEN /\ status' = "panic: unwrap on None"
                /\ UNCHANGED <<registry, written>>
           ELSE IF write_buffer(v[1], call[1].arg) = None
           THEN /\ status' = "panic: type formatter must come with an argument"
                /\ UNCHANGED <<registry, written>>
           ELSE /\ written' = write_buffer(v[1], call[1].arg)
                /\ registry' = insert(registry, Top.id, v[1])
                /\ status' = "idle"
    /\ stack' = <<>>
    /\ call' = <<>>
    /\ UNCHANGED <<answer, calls, visited>>
    /\ UNCHANGED <<abiVars, convVars>>

\* The module template is done: render returns Ok(text).
RenderOk ==
    /\ status = "idle"
    /\ status' = "Ok"
    /\ UNCHANGED <<registry, stack, call, written, answer, calls, visited>>
    /\ UNCHANGED <<abiVars, convVars>>

NextInk ==
    \/ \E id \in TypeIds \cup {UnknownId} : Mapped(id)
    \/ \E value \in NoIds : MappedNoId(value)
    \/ \E value \in NoIds : TypeNoId(value)
    \/ \E id \in TypeIds, arg \in Args : TypeHit(id, arg)
    \/ \E id \in TypeIds \cup {UnknownId}, arg \in Args : TypeMiss(id, arg)
    \/ LookupHit
    \/ LookupMiss
    \/ ReturnNested
    \/ ReturnOuter
    \/ RenderOk

SpecInk == InitInk /\ [][NextInk]_vars

(***************************************************************************)
(* Vocabulary of the I->E claims, read off the Ink types alone.            *)
(***************************************************************************)
InkType(id) == Resolve(id)[1]
IsU8(id) == InkType(id) = [def |-> "Primitive", path |-> <<>>, prim |-> "U8"]
ContiguousIndices(variants) ==
    [i \in 1..Len(variants) |-> variants[i].index]
        = [i \in 1..Len(variants) |-> i - 1]
NonDefaultVariant(id) ==
    /\ Resolve(id) # <<>>
    /\ InkType(id).def = "Variant"
    /\ ~ContiguousIndices(InkType(id).variants)

RECURSIVE ClaimFails(_)
ClaimFails(id) ==
    LET t == InkType(id)
    IN  \/ t.def = "Primitive" /\ t.prim = "Char"
        \/ t.def \notin {"Primitive", "Array", "Composite", "Tuple", "Variant"}
        \/ NonDefaultVariant(id)
        \/ t.def = "Array" /\ ClaimFails(t.elem)

FieldIds(id) ==
    IF Resolve(id) = <<>> THEN {}
    ELSE LET t == InkType(id)
         IN  CASE t.def = "Composite" -> {t.fields[i].ty : i \in 1..Len(t.fields)}
               [] t.def = "Tuple" -> {t.fields[i] : i \in 1..Len(t.fields)}
               [] t.def = "Array" -> {t.elem}
               [] OTHER -> {}

RECURSIVE Referenced(_, _)
Referenced(frontier, seen) ==
    IF frontier = {} THEN seen
    ELSE LET next == UNION {FieldIds(id) : id \in frontier}
         IN  Referenced(next \ seen, seen \cup next)

\* C7: an array over the primitive u8 is bytesN up to N = 32 and uint8[N]
\* above; over any other element it is the element's reference followed by
\* [N]; an array has no definition, modifier or encoder.
ArrayReferenceRule ==
    \A id \in DOMAIN registry :
        InkType(id).def = "Array" =>
            LET t == InkType(id)
                n == ToString(t.len)
                r == registry[id]
            IN  /\ r.definition = <<>> /\ r.modifier = <<>> /\ r.encoder = <<>>
                /\ IF IsU8(t.elem)
                   THEN r.reference = (IF t.len <= 32 THEN "bytes" \o n
                                       ELSE "uint8[" \o n \o "]")
                   ELSE r.reference = registry[t.elem].reference \o "[" \o n \o "]"

\* C8: once convert_type was called on a variant with other indices than
\* 0..k-1, render ends with Err(Error::Metadata) and no output.
VariantRejected ==
    (status # "converting" /\ \E id \in visited : NonDefaultVariant(id))
        => status = "Err(Metadata)"

\* C9: an id whose mapping fails (char, unsupported kind, variant with other
\* indices than 0..k-1, array over a failing element) has no registry entry,
\* in every state, within a call as well as between calls.
NoEntryOnFailure ==
    \A id \in DOMAIN registry : ~ClaimFails(id)

\* Inside the failing call on an array over a rejected variant, after an
\* earlier call registered a composite whose fields failed.
NoEntryOnFailureWitness ==
    /\ status = "converting"
    /\ Len(stack) = 1
    /\ Top.id = 16
    /\ Top.failed
    /\ {4, 14, 15, 16} \subseteq visited
    /\ 15 \in DOMAIN registry

\* C10: with a composite or tuple in the registry, every id its fields
\* reference, transitively, is in the registry too.
RegistryClosure ==
    \A id \in DOMAIN registry :
        InkType(id).def \in {"Composite", "Tuple"} =>
            Referenced({id}, {}) \subseteq DOMAIN registry

\* The ids whose convert_type is active, outermost first.
ActiveIds == [i \in 1..Len(stack) |-> stack[i].id]

\* C11: every call of convert_type terminates: no call is entered on an id
\* whose own call is still active (a cycle ends as a cyclic-type error at the
\* latest there), and the recursion never exhausts the stack.
MapperTerminates ==
    /\ \A i, j \in 1..Len(stack) : ActiveIds[i] = ActiveIds[j] => i = j
    /\ status # "abort: stack overflow"

\* The value the innermost active convert_type is about to return.
Returning ==
    IF status = "converting" /\ TopReady
    THEN Finish(TopType, Top.refs, Top.failed)
    ELSE None

\* C12: every EvmType convert_type returns and every entry of the registry
\* has a non-empty reference, whatever the kind of the Ink type and whether
\* or not its path has segments.
ReferenceNonEmpty ==
    /\ \A id \in DOMAIN registry : registry[id].reference # ""
    /\ Returning # None => Returning[1].reference # ""

\* C13: before any callback ran, the registry built by EvmTypeRegistry::new
\* answers lookup for the types of the portable registry: the id of [u8; 20]
\* has reference "uint8[20]" and no definition, modifier or encoder, and the
\* id of u8 has reference "uint8".
FreshRegistryAnswers ==
    (status = "idle" /\ calls = 0) =>
        /\ lookup(registry, 0) = Some(EvmType(None, "uint8[20]", None, None))
        /\ lookup(registry, 1) = Some(EvmType(None, "uint8", None, None))

\* What the claims expect of a composite's entry, read off the Ink type.
MapsOk(id) == Resolve(id) # <<>> /\ ~ClaimFails(id)
IsComposite(id) == Resolve(id) # <<>> /\ InkType(id).def = "Composite"
FieldsMap(id) == \A f \in FieldIds(id) : MapsOk(f)
ExpectedFieldName(id, i) ==
    LET f == InkType(id).fields[i]
    IN  IF f.name = <<>> THEN "f" \o ToString(i - 1) ELSE f.name[1]
RECURSIVE Underscored(_)
Underscored(path) ==
    IF path = <<>> THEN ""
    ELSE IF Len(path) = 1 THEN path[1]
    ELSE Underscored(SubSeq(path, 1, Len(path) - 1)) \o "_" \o path[Len(path)]
CompositeEntry(id, e) ==
    LET t == InkType(id)
    IN  /\ e.reference = Underscored(t.path)
        /\ e.modifier = <<"memory">>
        /\ e.definition # <<>>
        /\ e.encoder # <<>>
        /\ Len(e.definition[1].value.fields) = Len(t.fields)
        /\ \A i \in 1..Len(t.fields) :
              /\ e.definition[1].value.fields[i].name = ExpectedFieldName(id, i)
              /\ e.encoder[1].value.fields[i].name = ExpectedFieldName(id, i)

\* C14: a composite whose fields all map gets the entry (path joined by "_",
\* "memory", a definition, an encoder), anonymous fields are f0, f1, ... by
\* position, and the ids of its fields are in the registry when its
\* convert_type returns and whenever its entry is in the registry; erc20's
\* Transfer (id 7, fields 3, 3, 5) is "erc20_Transfer".
CompositeMapped ==
    /\ \A id \in DOMAIN registry :
          (IsComposite(id) /\ FieldsMap(id)) =>
              /\ CompositeEntry(id, registry[id])
              /\ FieldIds(id) \subseteq DOMAIN registry
    /\ (status = "converting" /\ TopReady /\ IsComposite(Top.id)
            /\ FieldsMap(Top.id)) =>
          /\ Returning # None
          /\ CompositeEntry(Top.id, Returning[1])
          /\ FieldIds(Top.id) \subseteq DOMAIN registry
    /\ 7 \in DOMAIN registry =>
          /\ registry[7].reference = "erc20_Transfer"
          /\ {3, 5} \subseteq DOMAIN registry

\* type(7, reference) returned: Transfer, AccountId with its anonymous field
\* and u128 are registered.
CompositeMappedWitness ==
    /\ status = "idle"
    /\ calls = 1
    /\ {3, 5, 7} \subseteq DOMAIN registry
    /\ registry[3].definition[1].value.fields[1].name = "f0"

\* C15: the `type` formatter reports what it detects (a value that is no
\* number, an id the Ink registry cannot resolve, a missing or unknown slot
\* argument) as an Err returned by render, never as a panic.
TypeFormatterNeverPanics ==
    status # "panic: type formatter must come with an argument"

\* What the claim calls a faulty item, read off the ABI input alone.
ValidSolidity ==
    {"address", "uint256", "uint", "uint8", "bytes", "bool",
     "(uint256,address)[2]"}
Nameless(item) == item.name = <<>>
FaultyInput(input) ==
    \/ input.name = <<>>
    \/ input.type = <<>>
    \/ input.type[1] \notin ValidSolidity
FaultyInputs(item) == \E k \in 1..Len(item.inputs) : FaultyInput(item.inputs[k])
NamelessSurvivors(js) == SelectSeq(Survivors(js), LAMBDA i : Nameless(js[i]))
FaultySurvivors(js) ==
    SelectSeq(Survivors(js), LAMBDA i : Nameless(js[i]) \/ FaultyInputs(js[i]))

\* C16: with a surviving item that has no name, an input without name or
\* type, or an input type that does not parse, render returns an error and
\* nothing else (no Module, no text); when a surviving item has no name the
\* error names the first such item by its index in the ABI array, counted
\* before filtering.
ErrorPropagation ==
    (pc = "done" /\ FaultySurvivors(json) # <<>>) =>
        /\ ~result.ok
        /\ DOMAIN result = {"ok", "kind", "msg"}
        /\ result.kind \in {"Metadata", "EthereumABI"}
        /\ NamelessSurvivors(json) # <<>> =>
              /\ result.kind = "Metadata"
              /\ result.msg = "'name' for ABI item "
                    \o ToString(NamelessSurvivors(json)[1] - 1)
                    \o " not exists or is not a string"

\* A good item, a filtered one and a filtered nameless one precede the
\* nameless survivor: the error names index 3.
ErrorPropagationWitness ==
    /\ pc = "done"
    /\ json = <<TransferTwo, BurnEvent, NoNameView, NoName>>
    /\ result.msg = "'name' for ABI item 3 not exists or is not a string"

\* C17: a callback that holds the registry exclusively has released it
\* before any template is rendered: none of the struct, enum and encoder
\* templates is rendered by convert_type while the RefMut is alive.
ReleasedBeforeRender ==
    borrow_mut => ~(TopReady /\ Templates(TopType) # {})

\* The text of a slot of an entry, "" for an absent optional slot.
SlotText(e, slot) ==
    CASE slot = "reference" -> e.reference
      [] slot = "definition" -> IF e.definition = <<>> THEN "" ELSE e.definition[1]
      [] slot = "modifier" -> IF e.modifier = <<>> THEN "" ELSE e.modifier[1]
      [] slot = "encoder" -> IF e.encoder = <<>> THEN "" ELSE e.encoder[1]
\* Texts are strings and rendered templates; compared by their print.
SameText(a, b) == ToString(a) = ToString(b)
EntriesKept ==
    \A id \in DOMAIN registry :
        id \in DOMAIN registry' /\ registry'[id] = registry[id]
\* A callback that came and went between two idle states: `mapped`, or
\* `type` on an id the registry holds.
ShortCallback == status = "idle" /\ status' = "idle"
\* The `type` callback on an absent id returns.
LongCallbackReturns == status = "converting" /\ status' = "idle"

\* C18: the registry only grows and no entry is ever rewritten; `mapped`
\* answers from the registry and leaves it alone; `type` on a present id
\* emits the slot of the stored entry, calls no convert_type and leaves the
\* registry alone; `type` on an absent id, when it returns, has inserted
\* that id with the entry whose slot it emitted ("" for an absent slot).
RegistryWriteOnce ==
    [][/\ EntriesKept
       /\ ShortCallback =>
             /\ registry' = registry
             /\ visited' = visited
             /\ stack' = <<>>
             /\ \/ /\ SameText(written', written)
                   /\ \E id \in TypeIds \cup {UnknownId} :
                         answer' = <<id \in DOMAIN registry>>
                \/ /\ answer' = answer
                   /\ Len(written') = 1
                   /\ \E id \in DOMAIN registry, slot \in Slots :
                         SameText(written'[1], SlotText(registry[id], slot))
       /\ LongCallbackReturns =>
             LET id == call[1].id
                 slot == call[1].arg[1]
             IN  /\ id \notin DOMAIN registry
                 /\ DOMAIN registry' = DOMAIN registry \cup {id}
                 /\ SameText(written'[1], SlotText(registry'[id], slot))
      ]_vars

\* Two `type` callbacks and no `mapped`: the first registered the variant
\* Status, the second found it and emitted "" for a slot it lacks.
RegistryWriteOnceWitness ==
    /\ status = "idle"
    /\ calls = 2
    /\ answer = <<>>
    /\ DOMAIN registry = {13}
    /\ SameText(written, <<"">>)

====
